---- MODULE Spec2Model ----
(***************************************************************************)
(* Model of the high-speed tensile tester script (src/main.py).            *)
(*                                                                         *)
(* Floating-point values are modelled as exact rationals <<num, den>>      *)
(* (den > 0, lowest terms); an equality that fails in exact arithmetic by  *)
(* a finite margin also fails in double precision.  np.sqrt is monotone    *)
(* on the non-negative reals, so the regression half-width is carried as   *)
(* its square wherever only its order or its zero-ness matters.            *)
(* Python sequences are 0-based; the model keeps 1-based TLA+ sequences    *)
(* and reads them through At / AtNeg with the source's indices.            *)
(***************************************************************************)
EXTENDS Integers, Sequences, FiniteSets, TLC

(***************************************************************************)
(* Exact rational arithmetic standing in for float64.                      *)
(***************************************************************************)
Abs(i) == IF i < 0 THEN -i ELSE i

RECURSIVE GCD(_, _)
GCD(a, b) == IF b = 0 THEN a ELSE GCD(b, a % b)

RNorm(n, d) ==
    LET g == GCD(Abs(n), Abs(d))
        s == IF d < 0 THEN -1 ELSE 1
    IN  <<(s * n) \div g, (s * d) \div g>>

R(i) == <<i, 1>>
RAdd(p, q) == RNorm(p[1] * q[2] + q[1] * p[2], p[2] * q[2])
RSub(p, q) == RNorm(p[1] * q[2] - q[1] * p[2], p[2] * q[2])
RMul(p, q) == RNorm(p[1] * q[1], p[2] * q[2])
RDiv(p, q) == RNorm(p[1] * q[2], p[2] * q[1])
RLt(p, q) == p[1] * q[2] < q[1] * p[2]
RLe(p, q) == p[1] * q[2] <= q[1] * p[2]
RAbs(p) == <<Abs(p[1]), p[2]>>
RSq(p) == RMul(p, p)

RECURSIVE RSum(_)
RSum(s) == IF s = <<>> THEN R(0) ELSE RAdd(Head(s), RSum(Tail(s)))

RMean(s) == RDiv(RSum(s), R(Len(s)))

RSeq(s) == [k \in 1..Len(s) |-> R(s[k])]

\* Python indexing: s[i] for i >= 0, s[-i] counted from the end.
At(s, i) == s[i + 1]
AtNeg(s, i) == s[Len(s) - i + 1]
\* Python slice s[a:b] for 0 <= a, b (clamped to the length).
Slice(s, a, b) ==
    LET hi == IF b > Len(s) THEN Len(s) ELSE b
    IN  IF a >= hi THEN <<>> ELSE [k \in 1..(hi - a) |-> s[a + k]]

\* Index (0-based) of the first maximum, as np.argmax; np.max.
RECURSIVE ArgMaxFrom(_, _, _)
ArgMaxFrom(s, i, best) ==
    IF i >= Len(s) THEN best
    ELSE ArgMaxFrom(s, i + 1, IF RLt(At(s, best), At(s, i)) THEN i ELSE best)
ArgMax(s) == ArgMaxFrom(s, 1, 0)
RMax(s) == At(s, ArgMax(s))

(***************************************************************************)
(* moving_average: np.convolve(data, ones(w)/w, mode='same').              *)
(* 'same' is the centred slice of the full convolution: output k sums the  *)
(* samples of indices k - w//2 .. k + (w-1)//2 that exist (the rest are    *)
(* zero padding) and every term carries the kernel weight 1/w.             *)
(***************************************************************************)
WindowLo(k, w) == k - (w \div 2)
WindowHi(k, w) == k + ((w - 1) \div 2)

InRange(data, k, w) ==
    {j \in 0..(Len(data) - 1) : WindowLo(k, w) <= j /\ j <= WindowHi(k, w)}

RECURSIVE SumOver(_, _)
SumOver(data, S) ==
    IF S = {} THEN R(0)
    ELSE LET j == CHOOSE x \in S : TRUE
         IN  RAdd(At(data, j), SumOver(data, S \ {j}))

ConvolveSame(data, w) ==
    [k1 \in 1..Len(data) |-> RDiv(SumOver(data, InRange(data, k1 - 1, w)), R(w))]

moving_average(data, window_size) ==
    IF window_size > Len(data) THEN [err |-> "ValueError", out |-> <<>>]
    ELSE IF window_size <= 0 THEN [err |-> "ValueError", out |-> <<>>]
    ELSE [err |-> "none", out |-> ConvolveSame(data, window_size)]

(***************************************************************************)
(* calculate_velocity.  The source has no length check: the statements run *)
(* in order and the first out-of-range read raises IndexError.             *)
(***************************************************************************)
InteriorVelocity(x, t, i) ==
    LET dt1 == RSub(At(t, i + 1), At(t, i))
        dt2 == RSub(At(t, i - 1), At(t, i))
        dt3 == RSub(At(t, i + 2), At(t, i))
        dt4 == RSub(At(t, i - 2), At(t, i))
    IN  RAdd(RDiv(RMul(R(2), RSub(At(x, i + 1), At(x, i - 1))), RSub(dt1, dt2)),
             RDiv(RSub(At(x, i - 2), At(x, i + 2)), RMul(R(12), RSub(dt3, dt4))))

calculate_velocity(x, t) ==
    LET n == Len(x)
        v0 == [k \in 1..n |-> IF 2 <= k - 1 /\ k - 1 < n - 2
                              THEN InteriorVelocity(x, t, k - 1) ELSE R(0)]
    IN  IF n < 2 THEN [err |-> "IndexError", velocity |-> <<>>]
        ELSE LET v1 == [v0 EXCEPT ![1] =
                          RDiv(RSub(At(x, 1), At(x, 0)), RSub(At(t, 1), At(t, 0)))]
             IN  IF n < 3 THEN [err |-> "IndexError", velocity |-> <<>>]
                 ELSE LET v2 == [v1 EXCEPT ![2] =
                                   RDiv(RSub(At(x, 2), At(x, 1)), RSub(At(t, 2), At(t, 1)))]
                          v3 == [v2 EXCEPT ![n] =
                                   RDiv(RSub(AtNeg(x, 1), AtNeg(x, 2)),
                                        RSub(AtNeg(t, 1), AtNeg(t, 2)))]
                          v4 == [v3 EXCEPT ![n - 1] =
                                   RDiv(RSub(AtNeg(x, 2), AtNeg(x, 3)),
                                        RSub(AtNeg(t, 2), AtNeg(t, 3)))]
                     IN  [err |-> "none", velocity |-> v4]

(***************************************************************************)
(* calc_lines_of_best_fit: numpy's Polynomial.fit(x, y, deg=1).  With no   *)
(* domain given, the fit maps x from domain [min x, max x] onto the window *)
(* [-1, 1] (u = off + scl*x), solves the least-squares line in u, and      *)
(* returns a series whose coef are the coefficients in u.  Calling the     *)
(* series on x maps x the same way before evaluating.                      *)
(***************************************************************************)
NaN == <<0, 0>>
IsNaN(p) == p[2] = 0

RECURSIVE SeqMin(_)
SeqMin(s) ==
    IF Len(s) = 1 THEN s[1]
    ELSE LET m == SeqMin(Tail(s)) IN IF RLt(s[1], m) THEN s[1] ELSE m
RECURSIVE SeqMax(_)
SeqMax(s) ==
    IF Len(s) = 1 THEN s[1]
    ELSE LET m == SeqMax(Tail(s)) IN IF RLt(m, s[1]) THEN s[1] ELSE m

\* pu.mapparms(domain, window): the affine map's offset and scale.
MapOff(dom, win) ==
    RDiv(RSub(RMul(dom[2], win[1]), RMul(dom[1], win[2])), RSub(dom[2], dom[1]))
MapScl(dom, win) == RDiv(RSub(win[2], win[1]), RSub(dom[2], dom[1]))
MapDomain(x, dom, win) == RAdd(MapOff(dom, win), RMul(MapScl(dom, win), x))

PolyWindow == <<R(-1), R(1)>>

\* np.polynomial.polyutils.mapdomain over the calibration voltages.
MapSeq(x, dom) == [k \in 1..Len(x) |-> MapDomain(x[k], dom, PolyWindow)]

\* The least-squares line through the points (u[k], y[k]): slope, then
\* <<intercept, slope>> as Polynomial.coef orders them.
LstSqSlope(u, y, ubar, ybar) ==
    RDiv(RSum([k \in 1..Len(u) |-> RMul(RSub(u[k], ubar), RSub(y[k], ybar))]),
         RSum([k \in 1..Len(u) |-> RSq(RSub(u[k], ubar))]))
LstSqCoef(ubar, ybar, c1) == <<RSub(ybar, RMul(c1, ubar)), c1>>
LstSqAt(u, y, ubar, ybar) == LstSqCoef(ubar, ybar, LstSqSlope(u, y, ubar, ybar))
LstSq(u, y) == LstSqAt(u, y, RMean(u), RMean(y))

FitOnDomain(x, y, dom) ==
    [coef |-> LstSq(MapSeq(x, dom), y), domain |-> dom, window |-> PolyWindow]

PolynomialFit(x, y) == FitOnDomain(x, y, <<SeqMin(x), SeqMax(x)>>)

\* f(v): Polynomial.__call__.
PolyCall(f, v) ==
    RAdd(f.coef[1], RMul(f.coef[2], MapDomain(v, f.domain, f.window)))

Gravity == <<49, 5>>

\* The calibration voltages and reference values of a sensor, as
\* calc_uncertainty selects them by type (0 load cell, 1 ultrasonic).
CalX(cfg, type) ==
    RSeq(IF type = 0 THEN cfg.load_cell.calibration_voltages
         ELSE cfg.ultrasonic.calibration_voltages)
CalYTrue(cfg, type) ==
    IF type = 0
    THEN [k \in 1..Len(cfg.load_cell.calibration_masses_kg) |->
             RMul(R(cfg.load_cell.calibration_masses_kg[k]), Gravity)]
    ELSE RSeq(cfg.ultrasonic.calibration_distances_m)

calc_lines_of_best_fit(cfg) ==
    [f_load_cell |-> PolynomialFit(CalX(cfg, 0), CalYTrue(cfg, 0)),
     f_ultrasonic |-> PolynomialFit(CalX(cfg, 1), CalYTrue(cfg, 1))]

(***************************************************************************)
(* calc_uncertainty.  The returned half-width is std_error * sqrt(term);   *)
(* the model returns its square, std_error^2 * term.  A division by zero   *)
(* on numpy floats gives inf or nan and a warning, never an exception:     *)
(* such results are NaN here.                                              *)
(***************************************************************************)
\* x_measured = (y_value - f.coef[0]) / f.coef[1]
InverseLookup(f, y_value) ==
    IF f.coef[2][1] = 0 THEN NaN ELSE RDiv(RSub(y_value, f.coef[1]), f.coef[2])

SampleVar(x, m) ==
    RDiv(RSum([k \in 1..Len(x) |-> RSq(RSub(x[k], m))]), R(Len(x) - 1))

\* std_error^2 = sum(residuals^2) / (n - 2)
StdErrorSq(f, x, y_true) ==
    RDiv(RSum([k \in 1..Len(x) |-> RSq(RSub(PolyCall(f, x[k]), y_true[k]))]),
         R(Len(x) - 2))

UncertaintyTerm(n, x_measured, x_mean, x_var) ==
    RAdd(RAdd(R(1), RDiv(R(1), R(n))),
         RDiv(RSq(RSub(x_measured, x_mean)), RMul(R(n - 1), x_var)))

UncertaintyAt(f, x, y_true, x_measured, x_mean) ==
    IF Len(x) <= 2 \/ IsNaN(x_measured) THEN NaN
    ELSE RMul(StdErrorSq(f, x, y_true),
              UncertaintyTerm(Len(x), x_measured, x_mean, SampleVar(x, x_mean)))

UncertaintySq(f, x, y_true, y_value) ==
    UncertaintyAt(f, x, y_true, InverseLookup(f, y_value), RMean(x))

SelectFit(fits, type) == IF type = 0 THEN fits.f_load_cell ELSE fits.f_ultrasonic

calc_uncertainty(cfg, type, y_value) ==
    IF type \notin {0, 1, 3} THEN [err |-> "ValueError", sq |-> NaN]
    ELSE IF type = 3 THEN [err |-> "UnboundLocalError", sq |-> NaN]
    ELSE [err |-> "none",
          sq |-> UncertaintySq(SelectFit(calc_lines_of_best_fit(cfg), type),
                               CalX(cfg, type), CalYTrue(cfg, type), y_value)]

(***************************************************************************)
(* process_data.  np.where(...)[0][0] raises IndexError when nothing       *)
(* exceeds the threshold; np.mean of an empty slice returns nan with a     *)
(* RuntimeWarning and the function goes on to return the summary.          *)
(***************************************************************************)
StartFraction == <<1, 20>>

test_start_threshold(force) ==
    RAdd(At(force, 0), RMul(StartFraction, RSub(RMax(force), At(force, 0))))

\* A variant of Exceeds comparing with >= in place of >.
Exceeds_AtLeast(force, threshold) ==
    {i \in 0..(Len(force) - 1) : RLe(threshold, At(force, i))}

Exceeds(force, threshold) ==
    {i \in 0..(Len(force) - 1) : RLt(threshold, At(force, i))}
AboveThreshold(force) == Exceeds(force, test_start_threshold(force))

\* A variant of MinOf taking the last element in place of the first.
MinOf_Last(S) == CHOOSE i \in S : \A j \in S : j <= i

MinOf(S) == CHOOSE i \in S : \A j \in S : i <= j

NpMean(s) == IF s = <<>> THEN NaN ELSE RMean(s)

NoSummary ==
    [max_force |-> NaN, displacement_at_break |-> NaN,
     velocity_at_break |-> NaN, average_velocity |-> NaN]

Summarise(force, disp, vel, test_start_index, sample_break_index, unc) ==
    [err |-> unc.err, returned |-> unc.err = "none",
     start |-> test_start_index, brk |-> sample_break_index,
     summary |->
        IF unc.err # "none" THEN NoSummary
        ELSE [max_force |-> RMax(force),
              displacement_at_break |-> At(disp, sample_break_index),
              velocity_at_break |-> At(vel, sample_break_index),
              average_velocity |->
                  NpMean(Slice(vel, test_start_index, sample_break_index))]]

ProcessAt(cfg, force, disp, vel, test_start_index, sample_break_index) ==
    Summarise(force, disp, vel, test_start_index, sample_break_index,
              calc_uncertainty(cfg, 1, At(disp, sample_break_index)))

ProcessFrom(cfg, force, disp, vel, hits) ==
    IF hits = {}
    THEN [err |-> "IndexError", returned |-> FALSE, start |-> -1, brk |-> -1,
          summary |-> NoSummary]
    ELSE ProcessAt(cfg, force, disp, vel, MinOf(hits), ArgMax(force))

process_data(cfg, force, disp, vel) ==
    IF Len(force) = 0
    THEN [err |-> "IndexError", returned |-> FALSE, start |-> -1, brk |-> -1,
          summary |-> NoSummary]
    ELSE ProcessFrom(cfg, force, disp, vel, AboveThreshold(force))

(***************************************************************************)
(* Console input.  A line is a sequence of characters; str.strip, str.lower*)
(* and int() are modelled on that representation.                          *)
(***************************************************************************)
Digits == {"0", "1", "2", "3", "4", "5", "6", "7", "8", "9"}
DigitVal(c) ==
    CASE c = "0" -> 0 [] c = "1" -> 1 [] c = "2" -> 2 [] c = "3" -> 3
      [] c = "4" -> 4 [] c = "5" -> 5 [] c = "6" -> 6 [] c = "7" -> 7
      [] c = "8" -> 8 [] c = "9" -> 9

RECURSIVE LStrip(_)
LStrip(s) == IF s # <<>> /\ Head(s) = " " THEN LStrip(Tail(s)) ELSE s
RECURSIVE RStrip(_)
RStrip(s) ==
    IF s # <<>> /\ s[Len(s)] = " " THEN RStrip(SubSeq(s, 1, Len(s) - 1)) ELSE s
Strip(s) == RStrip(LStrip(s))

LowerChar(c) ==
    CASE c = "E" -> "e" [] c = "X" -> "x" [] c = "I" -> "i" [] c = "T" -> "t"
      [] c = "S" -> "s" [] c = "Y" -> "y" [] c = "C" -> "c" [] OTHER -> c
Lower(s) == [k \in 1..Len(s) |-> LowerChar(s[k])]

\* Python truthiness of a str: non-empty.
Truthy(s) == s # <<>>

RECURSIVE DigitsValue(_, _)
DigitsValue(s, acc) ==
    IF s = <<>> THEN acc ELSE DigitsValue(Tail(s), 10 * acc + DigitVal(Head(s)))

\* int(line): surrounding whitespace stripped, an optional sign, then digits
\* only; anything else raises ValueError.
ParseInt(line) ==
    LET s == Strip(line)
        signed == s # <<>> /\ Head(s) \in {"-", "+"}
        body == IF signed THEN Tail(s) ELSE s
        ok == body # <<>> /\ \A k \in 1..Len(body) : body[k] \in Digits
    IN  IF ~ok THEN [ok |-> FALSE, val |-> 0]
        ELSE [ok |-> TRUE,
              val |-> IF signed /\ Head(s) = "-" THEN -DigitsValue(body, 0)
                      ELSE DigitsValue(body, 0)]

W_exit == <<"e", "x", "i", "t">>
W_test == <<"t", "e", "s", "t">>

(***************************************************************************)
(* Configuration (config_data, loaded from config.json or the defaults).   *)
(* The calibration tables hold small integers in place of the default      *)
(* file's floats, CalPoints points per sensor.                             *)
(***************************************************************************)
default_config_json ==
    [test_config |->
        [sampling_rate_hz |-> 1000, min_sampling_rate_hz |-> 1,
         max_sampling_rate_hz |-> 200000, test_duration_ms |-> 5000,
         min_test_duration_ms |-> 1, max_test_duration_ms |-> 10000],
     load_cell |->
        [calibration_date |-> 0, calibration_masses_kg |-> <<0, 1, 2>>,
         calibration_voltages |-> <<0, 2, 4>>],
     ultrasonic |->
        [calibration_date |-> 0, calibration_distances_m |-> <<1, 2, 3>>,
         calibration_voltages |-> <<0, 1, 3>>]]

\* num_samples = int((sampling_rate * test_duration_ms) / 1000)
NumSamples(cfg) ==
    (cfg.test_config.sampling_rate_hz * cfg.test_config.test_duration_ms) \div 1000

\* np.linspace(0, test_duration, num_samples), test_duration in seconds.
Linspace(cfg, n) ==
    [k \in 1..n |->
        IF n = 1 THEN R(0)
        ELSE RDiv(RMul(R(k - 1), <<cfg.test_config.test_duration_ms, 1000>>), R(n - 1))]

SubMean(s, m) == [k \in 1..Len(s) |-> RSub(s[k], m)]

\* f(raw): the fitted series applied to a raw voltage buffer.
Calibrated(f, raw) == [k \in 1..Len(raw) |-> PolyCall(f, R(raw[k]))]

\* data - np.mean(data[0:m]); on an empty buffer there is nothing to shift.
Baseline(s, m) == IF s = <<>> THEN s ELSE SubMean(s, RMean(Slice(s, 0, m)))

(***************************************************************************)
(* collect_data after the acquisition: calibrate, subtract the baseline,   *)
(* smooth the force with window 5.  The variation warnings only print.     *)
(***************************************************************************)
CollectResult(cfg, lc, us) ==
    IF lc.err # "none"
    THEN [err |-> lc.err, load_cell_data |-> <<>>, ultrasonic_data |-> <<>>,
          time |-> <<>>]
    ELSE [err |-> "none", load_cell_data |-> lc.out, ultrasonic_data |-> us,
          time |-> Linspace(cfg, NumSamples(cfg))]

CollectWith(cfg, fits, raw_load_cell_data, raw_ultrasonic_data) ==
    CollectResult(cfg,
        moving_average(Baseline(Calibrated(fits.f_load_cell, raw_load_cell_data), 10), 5),
        Baseline(Calibrated(fits.f_ultrasonic, raw_ultrasonic_data), 3))

collect_data(cfg, raw_load_cell_data, raw_ultrasonic_data) ==
    CollectWith(cfg, calc_lines_of_best_fit(cfg), raw_load_cell_data, raw_ultrasonic_data)

(***************************************************************************)
(* The body of tensile_test from collect_data to process_data: the first   *)
(* exception ends the run (and, uncaught, the program).                    *)
(***************************************************************************)
Failed(err, stage) == [err |-> err, stage |-> stage, summary |-> NoSummary]

AfterProcess(q) == [err |-> q.err, stage |-> "process_data", summary |-> q.summary]

AfterSmoothing(cfg, c, m) ==
    IF m.err # "none" THEN Failed(m.err, "moving_average")
    ELSE AfterProcess(process_data(cfg, c.load_cell_data, c.ultrasonic_data, m.out))

AfterVelocity(cfg, c, v) ==
    IF v.err # "none" THEN Failed(v.err, "calculate_velocity")
    ELSE AfterSmoothing(cfg, c, moving_average(v.velocity, 11))

AfterCollect(cfg, c) ==
    IF c.err # "none" THEN Failed(c.err, "collect_data")
    ELSE AfterVelocity(cfg, c, calculate_velocity(c.ultrasonic_data, c.time))

RunTest(cfg, raw_load_cell_data, raw_ultrasonic_data) ==
    AfterCollect(cfg, collect_data(cfg, raw_load_cell_data, raw_ultrasonic_data))

(***************************************************************************)
(* export_data: the filename carries strftime("%Y-%m-%d_%H-%M-%S") of the  *)
(* local clock, that is the clock truncated to whole seconds; open(.., 'w')*)
(* creates the file or truncates the one that exists.                      *)
(***************************************************************************)
TicksPerSecond == 2
ExportFilename(now) == now \div TicksPerSecond

(***************************************************************************)
(* Bounds of the model.                                                    *)
(***************************************************************************)
MaxClock == 6        \* the clock stops advancing here (ticks)
MaxRuns == 2         \* tensile tests that reach export_data
MaxSamples == 12     \* longest acquisition the model computes
MaxWait == 1         \* longest wait at one prompt (ticks)
MaxCalibrations == 1 \* calibration procedures started
MaxVelLen == 6       \* longest displacement sequence given to calculate_velocity
MaxStep == 2         \* largest time step of a grid
MaxAvgLen == 4       \* longest sequence given to moving_average
MaxCalPoints == 3    \* most points of a drawn calibration table
MaxVoltage == 3      \* largest calibration voltage of a drawn table
MaxForceLen == 4     \* longest force sequence given to process_data

(***************************************************************************)
(* State.                                                                  *)
(*   pc           where the program waits for input, or how it ended       *)
(*   choice       the module-level variable choice (main menu input)       *)
(*   screen       the last message printed                                 *)
(*   config_data  the in-memory configuration                              *)
(*   config_json  the content of config.json                               *)
(*   clock        the local clock, in ticks                                *)
(*   disk         the export files: filename -> ordinal of the export that *)
(*                last opened it with 'w'                                  *)
(*   exported     the filenames export_data opened, in order               *)
(*   cal_i        the loop index of the calibration procedure under way    *)
(*   calibrations the number of calibration procedures started             *)
(*   args, ret    inputs and result of the function under test (function   *)
(*                specifications), or the raw buffers and outcome of the   *)
(*                last test run                                            *)
(***************************************************************************)
VARIABLES pc, choice, screen, config_data, config_json, clock, disk, exported,
          cal_i, calibrations, args, ret

vars == <<pc, choice, screen, config_data, config_json, clock, disk, exported,
          cal_i, calibrations, args, ret>>

L_1 == <<"1">>
L_2 == <<"2">>
L_3 == <<"3">>
L_4 == <<"4">>

\* Lines the operator may type at a menu or confirmation prompt.
MenuLines ==
    { L_1, L_2, L_3, L_4, <<"5">>, <<" ", "3", " ">>, <<>>,
      W_exit, <<"E", "x", "i", "t">>, W_test, <<"y">>, <<"Y">>, <<"c">>, <<"C">> }

\* Lines the operator may type at a prompt that expects a number: not
\* integers, and integers at and around the configured limits.
NotIntegerLines == { <<"1", ".", "5">>, <<>>, W_exit }
FrequencyLines ==
    NotIntegerLines \cup
    { <<"0">>, L_1, <<"-", "5">>, <<" ", "1", " ">>,
      <<"2", "0", "0", "0", "0", "0">>, <<"2", "0", "0", "0", "0", "1">> }
DurationLines ==
    NotIntegerLines \cup
    { <<"0">>, L_1, <<"1", "2">>, <<" ", "1", "2", " ">>,
      <<"1", "0", "0", "0", "0">>, <<"1", "0", "0", "0", "1">> }

Lines == MenuLines \cup FrequencyLines \cup DurationLines

\* Voltages an acquisition may return: a flat trace, or a pulse at index p.
RawLoadTraces(n) ==
    {[k \in 1..n |-> 1]} \cup
    {[k \in 1..n |-> IF k - 1 = p THEN 3 ELSE 1] : p \in {0, n \div 2} \cap 0..(n - 1)}
RawUltrasonicTraces(n) == {[k \in 1..n |-> k - 1]}

\* Median voltage read at calibration step i.
CalReadings(i) == {2 * i + 1}

\* Time passes while a prompt waits; the model stops at MaxClock.
Advance(dt) == clock + dt
CanAdvance(dt) == clock + dt <= MaxClock

\* time.sleep(seconds)
Sleep(seconds) == seconds * TicksPerSecond

Init ==
    /\ pc = "main"
    /\ choice = <<>>
    /\ screen = "menu"
    /\ config_data = default_config_json
    /\ config_json = default_config_json
    /\ clock = 0
    /\ disk = <<>>
    /\ exported = <<>>
    /\ cal_i = 0
    /\ calibrations = 0
    /\ args = <<>>
    /\ ret = [err |-> "none", stage |-> "none", summary |-> NoSummary]

\* The main menu loop.  In the source the exit test reads
\*   choice.lower() == "4" or "exit"
\* whose second operand is the string "exit" itself.
MainMenu(line, dt) ==
    /\ pc = "main"
    /\ line \in MenuLines
    /\ choice' = Strip(line)
    /\ CanAdvance(dt)
    /\ IF choice' = L_1
       THEN pc' = "tensile_test" /\ screen' = "tensile_prompt" /\ clock' = Advance(dt)
       ELSE IF choice' = L_2
       THEN pc' = "calibrate" /\ screen' = "calibrate_menu" /\ clock' = Advance(dt)
       ELSE IF choice' = L_3
       THEN pc' = "settings" /\ screen' = "settings_menu" /\ clock' = Advance(dt)
       ELSE IF Lower(choice') = L_4 \/ Truthy(W_exit)
       THEN pc' = "exited" /\ screen' = "exiting" /\ clock' = Advance(dt)
       ELSE /\ pc' = "main" /\ screen' = "invalid_choice"
            /\ CanAdvance(dt + Sleep(1))
            /\ clock' = Advance(dt + Sleep(1))
    /\ UNCHANGED <<config_data, config_json, disk, exported, cal_i, calibrations, args, ret>>

\* settings(): the menu itself.
SettingsMenu(line, dt) ==
    /\ pc = "settings"
    /\ line \in MenuLines
    /\ CanAdvance(dt)
    /\ clock' = Advance(dt)
    /\ LET local_choice == Strip(line) IN
       IF Lower(local_choice) = W_exit THEN pc' = "exited" /\ screen' = "exiting"
       ELSE IF local_choice = L_1
            THEN pc' = "settings_frequency" /\ screen' = "frequency_prompt"
       ELSE IF local_choice = L_2
            THEN pc' = "settings_duration" /\ screen' = "duration_prompt"
       ELSE IF local_choice = L_3 THEN pc' = "main" /\ screen' = "menu"
       ELSE pc' = "settings" /\ screen' = "invalid_choice"
    /\ UNCHANGED <<choice, config_data, config_json, disk, exported, cal_i, calibrations, args, ret>>

\* A variant of FrequencyAccepted without the upper limit.
FrequencyAccepted_NoUpperLimit(cfg, new_frequency) ==
    cfg.test_config.min_sampling_rate_hz <= new_frequency

FrequencyAccepted(cfg, new_frequency) ==
    /\ cfg.test_config.min_sampling_rate_hz <= new_frequency
    /\ new_frequency <= cfg.test_config.max_sampling_rate_hz

\* settings(), choice 1: the inner loop reading the frequency.
SettingsFrequency(line, dt) ==
    /\ pc = "settings_frequency"
    /\ line \in FrequencyLines
    /\ CanAdvance(dt)
    /\ LET p == ParseInt(line) IN
       IF ~p.ok
       THEN /\ screen' = "invalid_integer"
            /\ clock' = Advance(dt)
            /\ UNCHANGED <<pc, config_data, config_json>>
       ELSE IF FrequencyAccepted(config_data, p.val)
       THEN /\ config_data' = [config_data EXCEPT !.test_config.sampling_rate_hz = p.val]
            /\ config_json' = config_data'
            /\ screen' = "frequency_updated"
            /\ CanAdvance(dt + Sleep(1))
            /\ clock' = Advance(dt + Sleep(1))
            /\ pc' = "settings"
       ELSE /\ screen' = "invalid_frequency"
            /\ clock' = Advance(dt)
            /\ UNCHANGED <<pc, config_data, config_json>>
    /\ UNCHANGED <<choice, disk, exported, cal_i, calibrations, args, ret>>

DurationAccepted(cfg, new_duration) ==
    /\ cfg.test_config.min_test_duration_ms <= new_duration
    /\ new_duration <= cfg.test_config.max_test_duration_ms

\* settings(), choice 2: the inner loop reading the duration.
SettingsDuration(line, dt) ==
    /\ pc = "settings_duration"
    /\ line \in DurationLines
    /\ CanAdvance(dt)
    /\ LET p == ParseInt(line) IN
       IF ~p.ok
       THEN /\ screen' = "invalid_integer"
            /\ clock' = Advance(dt)
            /\ UNCHANGED <<pc, config_data, config_json>>
       ELSE IF DurationAccepted(config_data, p.val)
       THEN /\ config_data' = [config_data EXCEPT !.test_config.test_duration_ms = p.val]
            /\ config_json' = config_data'
            /\ screen' = "duration_updated"
            /\ CanAdvance(dt + Sleep(1))
            /\ clock' = Advance(dt + Sleep(1))
            /\ pc' = "settings"
       ELSE /\ screen' = "invalid_duration"
            /\ clock' = Advance(dt)
            /\ UNCHANGED <<pc, config_data, config_json>>
    /\ UNCHANGED <<choice, disk, exported, cal_i, calibrations, args, ret>>

\* Ticks an acquisition of the configured duration takes, at least.
RunTicks(cfg) == (cfg.test_config.test_duration_ms * TicksPerSecond) \div 1000

NoRun == [err |-> "none", stage |-> "none", summary |-> NoSummary]

\* export_data(): open(filename, 'w') creates the file or truncates it.
ExportedDisk(files, filename, ordinal) ==
    [f \in (DOMAIN files) \cup {filename} |-> IF f = filename THEN ordinal ELSE files[f]]

\* tensile_test(): the confirmation prompt and, on 'test', the whole run up
\* to the "Press Enter" prompt.  An exception is not caught anywhere: it ends
\* the program.
TensileTest(line, dt) ==
    /\ pc = "tensile_test"
    /\ line \in MenuLines
    /\ LET local_choice == Strip(line) IN
       IF Lower(local_choice) = W_exit
       THEN /\ CanAdvance(dt)
            /\ clock' = Advance(dt)
            /\ pc' = "exited" /\ screen' = "exiting"
            /\ UNCHANGED <<disk, exported, args, ret>>
       ELSE IF Lower(local_choice) = W_test
       THEN /\ NumSamples(config_data) <= MaxSamples
            /\ Len(exported) < MaxRuns
            /\ CanAdvance(dt + RunTicks(config_data))
            /\ clock' = Advance(dt + RunTicks(config_data))
            /\ \E rl \in RawLoadTraces(NumSamples(config_data)),
                  ru \in RawUltrasonicTraces(NumSamples(config_data)) :
                 /\ args' = <<rl, ru>>
                 /\ ret' = RunTest(config_data, rl, ru)
            /\ IF ret'.err # "none"
               THEN /\ pc' = "crashed" /\ screen' = "traceback"
                    /\ UNCHANGED <<disk, exported>>
               ELSE /\ exported' = Append(exported, ExportFilename(clock'))
                    /\ disk' = ExportedDisk(disk, ExportFilename(clock'), Len(exported'))
                    /\ pc' = "tensile_wait" /\ screen' = "press_enter"
       ELSE /\ CanAdvance(dt)
            /\ clock' = Advance(dt)
            /\ pc' = "main" /\ screen' = "menu"
            /\ UNCHANGED <<disk, exported, args, ret>>
    /\ UNCHANGED <<choice, config_data, config_json, cal_i, calibrations>>

\* tensile_test(): input("Press Enter to return to main menu..."); the run's
\* arrays are locals and are gone on return.
TensileReturn(line, dt) ==
    /\ pc = "tensile_wait"
    /\ line \in MenuLines
    /\ CanAdvance(dt)
    /\ clock' = Advance(dt)
    /\ pc' = "main" /\ screen' = "menu"
    /\ args' = <<>>
    /\ ret' = NoRun
    /\ UNCHANGED <<choice, config_data, config_json, disk, exported, cal_i, calibrations>>

\* calibrate(): the calibration menu.
CalibrateMenu(line, dt) ==
    /\ pc = "calibrate"
    /\ line \in MenuLines
    /\ CanAdvance(dt)
    /\ clock' = Advance(dt)
    /\ LET local_choice == Strip(line) IN
       IF Lower(local_choice) = W_exit
       THEN pc' = "exited" /\ screen' = "exiting" /\ UNCHANGED calibrations
       ELSE IF local_choice \in {L_1, L_2}
       THEN /\ calibrations < MaxCalibrations
            /\ calibrations' = calibrations + 1
            /\ IF local_choice = L_1
               THEN pc' = "calibrate_load_cell" /\ screen' = "place_mass"
               ELSE pc' = "calibrate_ultrasonic" /\ screen' = "place_object"
       ELSE IF local_choice = L_3
       THEN pc' = "main" /\ screen' = "menu" /\ UNCHANGED calibrations
       ELSE pc' = "calibrate" /\ screen' = "invalid_choice" /\ UNCHANGED calibrations
    /\ cal_i' = 0
    /\ UNCHANGED <<choice, config_data, config_json, disk, exported, args, ret>>

\* One prompt of a calibration procedure's loop over the reference points.
\* On 'y' the median of a one-second acquisition is stored straight into
\* config_data; the file is written only after the last point.
CalibrationStep(sensor, line, dt, calib_val) ==
    /\ line \in MenuLines
    /\ LET local_choice == Strip(line) IN
       IF Lower(local_choice) = W_exit
       THEN /\ CanAdvance(dt)
            /\ clock' = Advance(dt)
            /\ pc' = "exited" /\ screen' = "exiting"
            /\ UNCHANGED <<config_data, config_json, cal_i>>
       ELSE IF local_choice \in {<<"y">>, <<"Y">>}
       THEN /\ CanAdvance(dt + TicksPerSecond)
            /\ clock' = Advance(dt + TicksPerSecond)
            /\ IF cal_i + 1 < Len(config_data[sensor].calibration_voltages)
               THEN /\ config_data' =
                         [config_data EXCEPT
                            ![sensor].calibration_voltages[cal_i + 1] = calib_val]
                    /\ cal_i' = cal_i + 1
                    /\ screen' = "voltage_recorded"
                    /\ UNCHANGED <<pc, config_json>>
               ELSE /\ config_data' =
                         [config_data EXCEPT
                            ![sensor].calibration_voltages[cal_i + 1] = calib_val,
                            ![sensor].calibration_date = clock']
                    /\ config_json' = config_data'
                    /\ cal_i' = 0
                    /\ pc' = "calibrate" /\ screen' = "calibration_complete"
       ELSE IF local_choice \in {<<"c">>, <<"C">>}
       THEN /\ CanAdvance(dt)
            /\ clock' = Advance(dt)
            /\ pc' = "calibrate" /\ screen' = "calibration_cancelled"
            /\ cal_i' = 0
            /\ UNCHANGED <<config_data, config_json>>
       ELSE /\ CanAdvance(dt)
            /\ clock' = Advance(dt)
            /\ screen' = "press_y_or_c"
            /\ UNCHANGED <<pc, config_data, config_json, cal_i>>
    /\ UNCHANGED <<choice, disk, exported, calibrations, args, ret>>

calibrate_load_cell(line, dt, calib_val) ==
    /\ pc = "calibrate_load_cell"
    /\ CalibrationStep("load_cell", line, dt, calib_val)

calibrate_ultrasonic(line, dt, calib_val) ==
    /\ pc = "calibrate_ultrasonic"
    /\ CalibrationStep("ultrasonic", line, dt, calib_val)

Next ==
    \E line \in Lines, dt \in 0..MaxWait :
        \/ MainMenu(line, dt)
        \/ SettingsMenu(line, dt)
        \/ SettingsFrequency(line, dt)
        \/ SettingsDuration(line, dt)
        \/ TensileTest(line, dt)
        \/ TensileReturn(line, dt)
        \/ CalibrateMenu(line, dt)
        \/ \E v \in CalReadings(cal_i) : calibrate_load_cell(line, dt, v)
        \/ \E v \in CalReadings(cal_i) : calibrate_ultrasonic(line, dt, v)

Spec == Init /\ [][Next]_vars

(***************************************************************************)
(* Function specifications: one function applied to inputs drawn from      *)
(* bounded sets.  The interactive state stays as constructed; args holds   *)
(* the inputs and ret what the call returned.                              *)
(***************************************************************************)
Idle ==
    /\ choice = <<>>
    /\ screen = "menu"
    /\ config_data = default_config_json
    /\ config_json = default_config_json
    /\ clock = 0
    /\ disk = <<>>
    /\ exported = <<>>
    /\ cal_i = 0
    /\ calibrations = 0

IdleUnchanged ==
    UNCHANGED <<choice, screen, config_data, config_json, clock, disk, exported,
                cal_i, calibrations>>

SeqsOver(S, n) == [1..n -> S]

\* Time grids that start at 0 and advance by the given steps.
RECURSIVE GridFrom(_, _)
GridFrom(steps, k) == IF k = 0 THEN 0 ELSE GridFrom(steps, k - 1) + steps[k]
Grid(steps, n) == [k \in 1..n |-> GridFrom(steps, k - 1)]
TimeGrids(n) ==
    IF n = 0 THEN {<<>>}
    ELSE {Grid(steps, n) : steps \in SeqsOver(1..MaxStep, n - 1)}

\* Displacements: v0 + a*t on the grid, and arbitrary 0/1 sequences.
Displacements(t) ==
    {[k \in 1..Len(t) |-> v0 + a * t[k]] : v0 \in {0, 1}, a \in {-1, 0, 1, 2}}
    \cup SeqsOver({0, 1}, Len(t))

VelocityInit ==
    /\ Idle
    /\ pc = "call_calculate_velocity"
    /\ \E n \in 0..MaxVelLen : \E t \in TimeGrids(n) : \E x \in Displacements(t) :
          args = [ultrasonic_data |-> x, time |-> t]
    /\ ret = <<>>

CallVelocity ==
    /\ pc = "call_calculate_velocity"
    /\ ret' = calculate_velocity(RSeq(args.ultrasonic_data), RSeq(args.time))
    /\ pc' = "returned_calculate_velocity"
    /\ UNCHANGED args
    /\ IdleUnchanged

SpecVelocity == VelocityInit /\ [][CallVelocity]_vars

AverageInit ==
    /\ Idle
    /\ pc = "call_moving_average"
    /\ \E n \in 0..MaxAvgLen : \E data \in SeqsOver({0, 1, 2}, n) :
       \E w \in -1..(MaxAvgLen + 1) :
          args = [data |-> data, window_size |-> w]
    /\ ret = <<>>

CallAverage ==
    /\ pc = "call_moving_average"
    /\ ret' = moving_average(RSeq(args.data), args.window_size)
    /\ pc' = "returned_moving_average"
    /\ UNCHANGED args
    /\ IdleUnchanged

SpecAverage == AverageInit /\ [][CallAverage]_vars

\* Calibration tables: distinct voltages, any reference values.
Distinct(s) == \A i, j \in 1..Len(s) : i # j => s[i] # s[j]
CalTables ==
    UNION {{[voltages |-> xs, references |-> ys] :
               xs \in {q \in SeqsOver(0..MaxVoltage, n) : Distinct(q)},
               ys \in SeqsOver(0..2, n)} : n \in 2..MaxCalPoints}
QueryVoltages == -1..(MaxVoltage + 1)

WithUltrasonicTable(cfg, table) ==
    [cfg EXCEPT !.ultrasonic.calibration_voltages = table.voltages,
                !.ultrasonic.calibration_distances_m = table.references]

\* collect_data: f_ultrasonic(raw_ultrasonic_data), one sample.
Predict(cfg, type, voltage) ==
    PolyCall(SelectFit(calc_lines_of_best_fit(cfg), type), voltage)

\* calc_uncertainty: the inverse lookup's x_measured for y_value.
XMeasured(cfg, type, y_value) ==
    InverseLookup(SelectFit(calc_lines_of_best_fit(cfg), type), y_value)

FitResult(cfg, predicted) ==
    [predicted |-> predicted,
     x_measured |-> XMeasured(cfg, 1, predicted),
     uncertainty_sq |-> calc_uncertainty(cfg, 1, predicted).sq]

FitInit ==
    /\ Idle
    /\ pc = "call_calc_uncertainty"
    /\ \E table \in CalTables : \E v \in QueryVoltages :
          args = [cfg |-> WithUltrasonicTable(default_config_json, table), voltage |-> v]
    /\ ret = <<>>

CallFit ==
    /\ pc = "call_calc_uncertainty"
    /\ ret' = FitResult(args.cfg, Predict(args.cfg, 1, R(args.voltage)))
    /\ pc' = "returned_calc_uncertainty"
    /\ UNCHANGED args
    /\ IdleUnchanged

SpecFit == FitInit /\ [][CallFit]_vars

ProcessInit ==
    /\ Idle
    /\ pc = "call_process_data"
    /\ \E n \in 0..MaxForceLen : \E force \in SeqsOver({0, 1, 2}, n) :
       \E velocity \in SeqsOver({0, 1}, n) :
          args = [load_cell_data |-> force,
                  ultrasonic_data |-> [k \in 1..n |-> k - 1],
                  velocity |-> velocity]
    /\ ret = <<>>

CallProcess ==
    /\ pc = "call_process_data"
    /\ ret' = process_data(config_data, RSeq(args.load_cell_data),
                           RSeq(args.ultrasonic_data), RSeq(args.velocity))
    /\ pc' = "returned_process_data"
    /\ UNCHANGED args
    /\ IdleUnchanged

SpecProcess == ProcessInit /\ [][CallProcess]_vars

\* settings() entered with any configuration whose values lie within their
\* configured limits (config.json is the operator's to edit).
TestConfigs ==
    {[sampling_rate_hz |-> r, min_sampling_rate_hz |-> 1,
      max_sampling_rate_hz |-> 200000, test_duration_ms |-> d,
      min_test_duration_ms |-> lo, max_test_duration_ms |-> 10000] :
        r \in {1, 1000, 200000}, d \in {12, 5000, 10000}, lo \in {1, 12}}

SettingsInit ==
    /\ pc = "settings"
    /\ choice = L_3
    /\ screen = "settings_menu"
    /\ \E tc \in TestConfigs :
          config_data = [default_config_json EXCEPT !.test_config = tc]
    /\ config_json = config_data
    /\ clock = 0
    /\ disk = <<>>
    /\ exported = <<>>
    /\ cal_i = 0
    /\ calibrations = 0
    /\ args = <<>>
    /\ ret = NoRun

SettingsNext ==
    \E line \in Lines, dt \in 0..MaxWait :
        \/ SettingsMenu(line, dt)
        \/ SettingsFrequency(line, dt)
        \/ SettingsDuration(line, dt)

SpecSettings == SettingsInit /\ [][SettingsNext]_vars

(***************************************************************************)
(* Properties.                                                             *)
(***************************************************************************)
RECURSIVE IntSum(_, _)
IntSum(s, S) ==
    IF S = {} THEN 0
    ELSE LET j == CHOOSE x \in S : TRUE IN s[j] + IntSum(s, S \ {j})

IntMax(s) == CHOOSE m \in {s[k] : k \in 1..Len(s)} : \A k \in 1..Len(s) : s[k] <= m

UniformGrid(t) ==
    /\ Len(t) >= 2
    /\ t[2] - t[1] > 0
    /\ \A k \in 1..(Len(t) - 1) : t[k + 1] - t[k] = t[2] - t[1]

LinearOn(x, t) ==
    \A k \in 1..Len(t) : (x[k] - x[1]) * (t[2] - t[1]) = (x[2] - x[1]) * (t[k] - t[1])

\* C1: on a uniform time grid with displacement v0 + a*t and at least five
\* samples, calculate_velocity returns a at every interior index 2..n-3.
C1_InteriorVelocityIsSlope ==
    (/\ pc = "returned_calculate_velocity"
     /\ Len(args.time) >= 5
     /\ UniformGrid(args.time)
     /\ LinearOn(args.ultrasonic_data, args.time))
    => /\ ret.err = "none"
       /\ \A i \in 2..(Len(args.time) - 3) :
             At(ret.velocity, i) =
                RNorm(args.ultrasonic_data[2] - args.ultrasonic_data[1],
                      args.time[2] - args.time[1])

\* The samples of data that the window of size w centred at index k covers.
Covered(data, k, w) ==
    {j \in 1..Len(data) : k - (w \div 2) <= j - 1 /\ j - 1 <= k + ((w - 1) \div 2)}

\* C2: for 1 <= windowSize <= len(data), moving_average returns a sequence of
\* the input's length whose value at each index is the mean of the in-range
\* samples the centred window covers (truncated at the ends, no zero padding).
C2_TruncatedWindowMean ==
    (/\ pc = "returned_moving_average"
     /\ 1 <= args.window_size
     /\ args.window_size <= Len(args.data))
    => /\ ret.err = "none"
       /\ Len(ret.out) = Len(args.data)
       /\ \A k \in 0..(Len(args.data) - 1) :
             At(ret.out, k) =
                RNorm(IntSum(args.data, Covered(args.data, k, args.window_size)),
                      Cardinality(Covered(args.data, k, args.window_size)))

\* C3: for a calibration table of distinct voltages, the inverse lookup of
\* the predicted value of a voltage v gives back v.
C3_InverseRoundTrip ==
    (pc = "returned_calc_uncertainty" /\ ~IsNaN(ret.x_measured))
    => ret.x_measured = R(args.voltage)

\* v2 lies on the same side of the mean calibration voltage as v1, at least
\* as far from it (distances scaled by the number of points).
FartherSameSide(xs, v1, v2) ==
    LET d1 == Len(xs) * v1 - IntSum(xs, 1..Len(xs))
        d2 == Len(xs) * v2 - IntSum(xs, 1..Len(xs))
    IN  d1 * d2 >= 0 /\ Abs(d1) <= Abs(d2)

\* C4: for a table of at least three points, the half-width does not shrink
\* as the queried voltage moves away from the mean calibration voltage on
\* one side of it.
C4_WidensAwayFromMean ==
    (/\ pc = "returned_calc_uncertainty"
     /\ Len(args.cfg.ultrasonic.calibration_voltages) >= 3
     /\ ~IsNaN(ret.uncertainty_sq))
    => \A v2 \in QueryVoltages :
          FartherSameSide(args.cfg.ultrasonic.calibration_voltages, args.voltage, v2)
          => RLe(ret.uncertainty_sq,
                 calc_uncertainty(args.cfg, 1, Predict(args.cfg, 1, R(v2))).sq)

\* Indices (1-based) where force exceeds force[0] + 0.05*(max - force[0]),
\* in integers: 20*force[i] > 19*force[0] + max.
Rises(force) ==
    {i \in 1..Len(force) : 20 * force[i] > 19 * force[1] + IntMax(force)}
FirstOf(S) == CHOOSE i \in S : \A j \in S : i <= j
PeakIndex(force) == FirstOf({i \in 1..Len(force) : force[i] = IntMax(force)})

\* C5: when the test-start index is at or after the break index, so that the
\* averaging range is empty, process_data fails and returns no summary.
C5_EmptyRangeFails ==
    (/\ pc = "returned_process_data"
     /\ Rises(args.load_cell_data) # {}
     /\ FirstOf(Rises(args.load_cell_data)) >= PeakIndex(args.load_cell_data))
    => ret.err # "none" /\ ~ret.returned

\* C6: when no sample exceeds force[0] + 0.05*(max(force) - force[0]),
\* process_data fails with an error and returns no summary.
C6_NoRiseFails ==
    (pc = "returned_process_data" /\ Rises(args.load_cell_data) = {})
    => ret.err # "none" /\ ~ret.returned /\ ret.summary = NoSummary

\* C6 witness: a constant force sequence was processed and rejected.
C6_ConstantForceRejected ==
    /\ pc = "returned_process_data"
    /\ args.load_cell_data = <<1, 1, 1>>
    /\ ret.err = "IndexError"

\* C7: no export opens a filename an earlier export used: every export's
\* file still holds that export.
C7_ExportsNeverOverwritten ==
    \A k \in 1..Len(exported) : disk[exported[k]] = k

\* C8: calculate_velocity fails for every input of fewer than five samples
\* and returns no velocity sequence.
C8_ShortInputFails ==
    (pc = "returned_calculate_velocity" /\ Len(args.ultrasonic_data) < 5)
    => ret.err # "none" /\ ret.velocity = <<>>

InBounds(cfg) ==
    /\ cfg.test_config.min_sampling_rate_hz <= cfg.test_config.sampling_rate_hz
    /\ cfg.test_config.sampling_rate_hz <= cfg.test_config.max_sampling_rate_hz
    /\ cfg.test_config.min_test_duration_ms <= cfg.test_config.test_duration_ms
    /\ cfg.test_config.test_duration_ms <= cfg.test_config.max_test_duration_ms

RejectedMessages == {"invalid_integer", "invalid_frequency", "invalid_duration"}

\* C9: through any sequence of settings-menu inputs the stored sampling rate
\* and test duration stay within their configured limits, in memory and in
\* the file, and a step that ends in a rejection message changes neither.
C9_SettingsStayInBounds ==
    /\ [](InBounds(config_data) /\ InBounds(config_json))
    /\ [][(pc \in {"settings_frequency", "settings_duration"}
             /\ screen' \in RejectedMessages)
          => (config_data' = config_data /\ config_json' = config_json)]_vars

\* C9 witness: the maximum frequency was accepted and saved, and a later
\* entry at the frequency prompt was rejected.
C9_RejectedAfterAccepted ==
    /\ pc = "settings_frequency"
    /\ screen = "invalid_frequency"
    /\ config_data.test_config.sampling_rate_hz = 200000
    /\ config_data.test_config.test_duration_ms = 12
    /\ config_json = config_data

\* C10: at the main menu an input other than 1, 2, 3, 4 or exit shows the
\* invalid-choice message and the menu is presented again, the program
\* still running.
C10_InvalidChoiceStaysAtMenu ==
    [][(/\ pc = "main"
        /\ choice' \notin {L_1, L_2, L_3, L_4}
        /\ Lower(choice') # W_exit)
       => (pc' = "main" /\ screen' = "invalid_choice")]_vars

\* C11: whenever force[0] is not the maximum of force, process_data finds a
\* test-start index, and that index is at most the break index, the first
\* index of the maximum force.
C11_StartNotAfterBreak ==
    (/\ pc = "returned_process_data"
     /\ Len(args.load_cell_data) >= 1
     /\ args.load_cell_data[1] # IntMax(args.load_cell_data))
    => /\ ret.start >= 0
       /\ ret.brk = PeakIndex(args.load_cell_data) - 1
       /\ ret.start <= ret.brk

\* C11 witness: a force sequence that rises before its peak was processed,
\* the start index strictly before the break index.
C11_RiseBeforePeak ==
    /\ pc = "returned_process_data"
    /\ args.load_cell_data = <<0, 1, 2, 1>>
    /\ ret.err = "none"
    /\ ret.start = 1
    /\ ret.brk = 2

Sensors == {"load_cell", "ultrasonic"}

CalibrationTable(cfg, sensor) ==
    <<cfg[sensor].calibration_voltages, cfg[sensor].calibration_date>>

\* C12: cancelling a calibration procedure with 'c' leaves the calibration
\* tables as they were before the procedure began.  The file is written
\* only when a procedure completes or a setting is saved, and it agrees
\* with memory when the program starts, so: right after a cancellation the
\* tables in memory are those of the file, and a file that still carries
\* the original calibration date still carries the original voltages.
C12_CancelLeavesTableUnchanged ==
    /\ screen = "calibration_cancelled"
       => \A sensor \in Sensors :
             CalibrationTable(config_data, sensor) = CalibrationTable(config_json, sensor)
    /\ \A sensor \in Sensors :
          config_json[sensor].calibration_date = default_config_json[sensor].calibration_date
          => config_json[sensor].calibration_voltages
                = default_config_json[sensor].calibration_voltages

\* C13: with the sampling rate and duration within the configured limits, a
\* test run has at least five samples for calculate_velocity, and neither
\* smoothing call (window 5 in collect_data, window 11 in tensile_test) is
\* rejected by moving_average's window-size check.
C13_AcceptedSettingsRunSmoothing ==
    (pc \in {"tensile_wait", "crashed"} /\ InBounds(config_data))
    => /\ Len(args[1]) >= 5
       /\ ~(ret.err = "ValueError" /\ ret.stage \in {"collect_data", "moving_average"})

====
